---- MODULE Spec2Model ----
(***************************************************************************)
(* Model of main.py of tarkov-server-locator: the log tailing loop         *)
(* (log_follow), the locator (get_newest_log_filename), the shared-mode    *)
(* open (open_log_file) and the consumer (main / parse_line /              *)
(* post_location), together with the external game client that creates    *)
(* log directories and appends to the newest log file.                     *)
(*                                                                         *)
(* A log file is a sequence of writes ("units").  A unit is one write of   *)
(* the game client: it either ends a line (nl = TRUE) or leaves the line   *)
(* open (nl = FALSE), and it either is valid UTF-8 or holds an undecodable *)
(* byte (bad = TRUE).                                                      *)
(*                                                                         *)
(* f.readline() is the readline of Python's io.TextIOWrapper opened with   *)
(* encoding="UTF-8" (main.py line 105): it returns the next line of the    *)
(* decoded buffer; when the buffer holds no line ending it reads one more  *)
(* chunk of raw bytes and decodes the chunk as a whole.  A chunk that      *)
(* fails to decode raises UnicodeDecodeError; the raw position has already *)
(* moved past the chunk, so everything in the chunk, and the undelivered   *)
(* start of the line read so far, is gone.  At end of file it returns the  *)
(* undelivered rest (a line without its ending) or the empty string.       *)
(***************************************************************************)
EXTENDS Integers, Sequences, FiniteSets, TLC

\* ---------------------------------------------------------------- bounds
MaxDirs == 2        \* log directories the game client creates
MaxUnits == 2       \* writes the game client performs, over all files
MaxEntries == 3     \* entries of the logs root when the locator is run alone

\* ------------------------------------------------------ program constants
Threshold == 30     \* main.py line 142: no_new_lines_counter > 30
SleepSeconds == 1   \* main.py line 157: asyncio.sleep(1)

Marker == "log_"                    \* main.py line 78
Suffix == " application.log"        \* main.py line 80
Sentinel == "DECODE_ERROR"          \* main.py line 129

SessionTags == <<"s1", "s2", "s3", "s4">>
DirName(i) == <<Marker, SessionTags[i]>>
DirNames == {DirName(i) : i \in 1..MaxDirs}

None == [none |-> TRUE]

VARIABLES
  entries,                \* the logs root, in os.scandir order: [name, ctime]
  fs,                     \* per directory: is the data file there, and its writes
  wdir,                   \* number of directories created; the client writes to the last
  written,                \* number of writes performed so far
  pc,                     \* where the single task is
  err,                    \* the exception that ended the task, or "none"
  f,                      \* log_follow: the current handle
  f_name,                 \* log_follow: the current path
  f_new,                  \* log_follow: the probe handle
  f_new_name,             \* log_follow: the probe path
  no_new_lines_counter,   \* log_follow
  scanned_through_file,   \* log_follow
  line,                   \* the value yielded to main
  open,                   \* ids of the handles that are open
  emitted,                \* history: every value log_follow yielded
  handled,                \* history: what main did with the value just yielded
  eofObserved,            \* history: an empty read happened on the current handle
  sources,                \* history: the directories log_follow has tailed, in order
  lastRead,               \* history: result of the last readline on the current handle
  empties,                \* history: empty reads since the last yield or probe
  sleeps                  \* history: suspensions since the last read attempt

vars == <<entries, fs, wdir, written, pc, err, f, f_name, f_new, f_new_name,
          no_new_lines_counter, scanned_through_file, line, open,
          emitted, handled, eofObserved, sources, lastRead, empties, sleeps>>

envVars == <<entries, fs, wdir, written>>
engineVars == <<pc, err, f, f_name, f_new, f_new_name, no_new_lines_counter,
                scanned_through_file, line, open, emitted, handled,
                eofObserved, sources, lastRead, empties, sleeps>>

\* ------------------------------------------------------------ the locator

\* str.partition(sep) on a name given as a sequence of tokens: the part
\* after the first occurrence of sep, empty when sep does not occur.
RECURSIVE AfterMarker(_, _)
AfterMarker(name, sep) ==
  IF name = <<>> THEN <<>>
  ELSE IF Head(name) = sep THEN Tail(name)
  ELSE AfterMarker(Tail(name), sep)

\* The loop of get_newest_log_filename over the scandir entries.
RECURSIVE ScanNewest(_, _, _)
ScanNewest(ents, newest_entry, newest_time) ==
  IF ents = <<>> THEN newest_entry
  ELSE LET entry == Head(ents)
           cur_time == entry.ctime
       IN IF cur_time > newest_time
          THEN ScanNewest(Tail(ents), entry, cur_time)
          ELSE ScanNewest(Tail(ents), newest_entry, newest_time)

PathOf(entry) ==
  [dir |-> entry.name, file |-> AfterMarker(entry.name, Marker) \o <<Suffix>>]

\* get_newest_log_filename that keeps the last of the entries tied for the
\* greatest creation time.
get_newest_log_filename_LastTie(ents) ==
  LET rev == [i \in 1..Len(ents) |-> ents[Len(ents) + 1 - i]]
      newest_entry == ScanNewest(rev, None, -1)
  IN IF newest_entry = None
     THEN [ok |-> FALSE]
     ELSE [ok |-> TRUE, path |-> PathOf(newest_entry)]

get_newest_log_filename(ents) ==
  LET newest_entry == ScanNewest(ents, None, -1)
  IN IF newest_entry = None
     THEN [ok |-> FALSE]
     ELSE [ok |-> TRUE, path |-> PathOf(newest_entry)]

\* The name the game client gives the data file of a directory.
DataFile(name) == Tail(name) \o <<Suffix>>

FreeId(ids) == CHOOSE i \in 1..3 : i \notin ids /\ \A j \in 1..(i-1) : j \in ids

\* open_log_file: locate, then CreateFile with OPEN_EXISTING; the handle
\* starts at offset 0 (the seek to the end is commented out).
open_log_file(ents, files, ids) ==
  LET r == get_newest_log_filename(ents)
  IN IF ~r.ok THEN [ok |-> FALSE, error |-> "AssertionError"]
     ELSE IF ~(files[r.path.dir].exists /\ r.path.file = DataFile(r.path.dir))
     THEN [ok |-> FALSE, error |-> "IoError"]
     ELSE [ok |-> TRUE,
           handle |-> [id |-> FreeId(ids), dir |-> r.path.dir, pos |-> 0, used |-> 0],
           name |-> r.path]

TypeOK ==
  /\ pc \in {"start", "read", "yield", "probe", "compare", "sleep", "raised"}
  /\ err \in {"none", "first_open", "probe_open", "lookup", "send"}
  /\ no_new_lines_counter \in 0..(Threshold + 1)
  /\ scanned_through_file \in BOOLEAN
  /\ open \subseteq 1..3
  /\ wdir \in 0..MaxDirs
  /\ written \in 0..MaxUnits

Init ==
  /\ entries = <<>>
  /\ fs = [d \in DirNames |-> [exists |-> FALSE, data |-> <<>>]]
  /\ wdir = 0
  /\ written = 0
  /\ pc = "start"
  /\ err = "none"
  /\ f = None
  /\ f_name = None
  /\ f_new = None
  /\ f_new_name = None
  /\ no_new_lines_counter = 0
  /\ scanned_through_file = FALSE
  /\ line = None
  /\ open = {}
  /\ emitted = <<>>
  /\ handled = None
  /\ eofObserved = FALSE
  /\ sources = <<>>
  /\ lastRead = "none"
  /\ empties = 0
  /\ sleeps = 0

\* ------------------------------------------------------- the game client

MaxCtime == IF entries = <<>> THEN 0
            ELSE CHOOSE t \in {entries[i].ctime : i \in 1..Len(entries)} :
                   \A i \in 1..Len(entries) : entries[i].ctime <= t

\* The client is followed for as long as the task runs.
Running == pc # "raised"

\* The client starts a session: a new directory appears in the logs root.
\* Sessions start at different times, so its creation time is after that of
\* the others; its name carries the date, and scandir lists it after them.
CreateDir ==
  /\ Running
  /\ wdir < MaxDirs
  /\ entries' = Append(entries, [name |-> DirName(wdir + 1), ctime |-> MaxCtime + 1])
  /\ wdir' = wdir + 1
  /\ UNCHANGED <<fs, written>>
  /\ UNCHANGED engineVars

\* The data file of the newest directory becomes openable.
CreateFile ==
  /\ Running
  /\ wdir >= 1
  /\ ~fs[DirName(wdir)].exists
  /\ fs' = [fs EXCEPT ![DirName(wdir)].exists = TRUE]
  /\ UNCHANGED <<entries, wdir, written>>
  /\ UNCHANGED engineVars

\* The client appends one write to the data file of its session.
WriterAppend ==
  /\ Running
  /\ wdir >= 1
  /\ fs[DirName(wdir)].exists
  /\ written < MaxUnits
  /\ \E u \in {[bad |-> FALSE, nl |-> TRUE], [bad |-> FALSE, nl |-> FALSE],
               [bad |-> TRUE, nl |-> TRUE]} :
        fs' = [fs EXCEPT ![DirName(wdir)].data = Append(@, u)]
  /\ written' = written + 1
  /\ UNCHANGED <<entries, wdir>>
  /\ UNCHANGED engineVars

\* ------------------------------------------------------------ f.readline()

Min(S) == CHOOSE x \in S : \A y \in S : x <= y

\* The raw reads one readline can make: the bytes at hand, up to the chunk
\* size of the text layer.  Writes have no fixed length here, so a chunk
\* covers any number of the writes at hand.
ChunkSizes(avail) == 1..avail

\* Every result f.readline() can have on a handle with raw position pos and
\* delivered position used (the writes used+1..pos are decoded and waiting).
RECURSIVE ReadOutcomes(_, _, _)
ReadOutcomes(data, pos, used) ==
  LET ends == {j \in (used + 1)..pos : data[j].nl}
  IN IF ends # {}
     THEN {[kind |-> "line", from |-> used + 1, to |-> Min(ends),
            pos |-> pos, used |-> Min(ends)]}
     ELSE IF pos = Len(data)
     THEN IF used < pos
          THEN {[kind |-> "line", from |-> used + 1, to |-> pos,
                 pos |-> pos, used |-> pos]}
          ELSE {[kind |-> "eof", from |-> 0, to |-> 0, pos |-> pos, used |-> used]}
     ELSE UNION {
            IF \E j \in (pos + 1)..(pos + k) : data[j].bad
            THEN {[kind |-> "error", from |-> 0, to |-> 0,
                   pos |-> pos + k, used |-> pos + k]}
            ELSE ReadOutcomes(data, pos + k, used)
          : k \in ChunkSizes(Len(data) - pos)}

\* ------------------------------------------------------------- log_follow

\* AfterRead without line 133: an empty read does not mark the file scanned.
AfterRead_NoScan(o, counter, scanned) ==
  IF o.kind = "eof"
  THEN [yields |-> FALSE, scanned |-> scanned, counter |-> counter + 1, live |-> FALSE]
  ELSE [yields |-> TRUE, scanned |-> scanned, counter |-> 0, live |-> scanned]

\* AfterRead with the flag cleared whenever a line is read.
AfterRead_ResetFlag(o, counter, scanned) ==
  IF o.kind = "eof"
  THEN [yields |-> FALSE, scanned |-> TRUE, counter |-> counter + 1, live |-> FALSE]
  ELSE [yields |-> TRUE, scanned |-> FALSE, counter |-> 0, live |-> scanned]

\* AfterRead without line 137: a line does not reset the counter.
AfterRead_NoReset(o, counter, scanned) ==
  IF o.kind = "eof"
  THEN [yields |-> FALSE, scanned |-> TRUE, counter |-> counter + 1, live |-> FALSE]
  ELSE [yields |-> TRUE, scanned |-> scanned, counter |-> counter, live |-> scanned]

\* Lines 124-139: what the loop does with the result of one readline.
AfterRead(o, counter, scanned) ==
  IF o.kind = "eof"
  THEN [yields |-> FALSE, scanned |-> TRUE, counter |-> counter + 1, live |-> FALSE]
  ELSE [yields |-> TRUE, scanned |-> scanned, counter |-> 0, live |-> scanned]

\* Line 142 with >= for >: the probe comes one empty read early.
NeedProbe_Early(counter) == counter >= Threshold

\* Line 142 with the threshold one too high: the probe comes one read late.
NeedProbe_Late(counter) == counter > Threshold + 1

\* Line 142.
NeedProbe(counter) == counter > Threshold

\* Adopt without line 151: the flag survives the switch.
Adopt_KeepScanned(cur, cur_name, new, new_name, scanned) ==
  IF new_name # cur_name
  THEN [f |-> new, f_name |-> new_name, scanned |-> scanned, closed |-> cur.id]
  ELSE [f |-> cur, f_name |-> cur_name, scanned |-> scanned, closed |-> new.id]

\* Adopt without the comparison of line 146: every probe replaces the handle.
Adopt_AlwaysReplace(cur, cur_name, new, new_name, scanned) ==
  [f |-> new, f_name |-> new_name,
   scanned |-> IF new_name # cur_name THEN FALSE ELSE scanned,
   closed |-> cur.id]

\* Adopt with the comparison of line 146 inverted.
Adopt_SwapBranches(cur, cur_name, new, new_name, scanned) ==
  IF new_name = cur_name
  THEN [f |-> new, f_name |-> new_name, scanned |-> FALSE, closed |-> cur.id]
  ELSE [f |-> cur, f_name |-> cur_name, scanned |-> scanned, closed |-> new.id]

\* Adopt without the close of line 148: the old handle stays open.
Adopt_Leak(cur, cur_name, new, new_name, scanned) ==
  IF new_name # cur_name
  THEN [f |-> new, f_name |-> new_name, scanned |-> FALSE, closed |-> 0]
  ELSE [f |-> cur, f_name |-> cur_name, scanned |-> scanned, closed |-> new.id]

\* Lines 146-154: keep the probe handle or the old one.
Adopt(cur, cur_name, new, new_name, scanned) ==
  IF new_name # cur_name
  THEN [f |-> new, f_name |-> new_name, scanned |-> FALSE, closed |-> cur.id]
  ELSE [f |-> cur, f_name |-> cur_name, scanned |-> scanned, closed |-> new.id]

\* post_location without the return of lines 183-184.
post_location_Always(is_live_session) == 1

\* Lines 179-195: the number of webhook.send calls post_location makes.
post_location(is_live_session) ==
  IF ~is_live_session THEN 0 ELSE 1

\* Lines 161-176.  matched: the pattern matches the line; lookup: what the
\* geolocation request does; send: what the webhook call does.
parse_line(matched, lookup, send, is_live_session) ==
  IF ~matched THEN [raised |-> "none", calls |-> 0]
  ELSE IF lookup = "unreachable" THEN [raised |-> "lookup", calls |-> 0]
  ELSE IF lookup # "success" THEN [raised |-> "none", calls |-> 0]
  ELSE LET n == post_location(is_live_session)
       IN [raised |-> IF n > 0 /\ send = "error" THEN "send" ELSE "none",
           calls |-> n]

\* OpenFirst with the failure swallowed: the loop starts without a file.
OpenFirst_Lenient ==
  /\ pc = "start"
  /\ LET r == open_log_file(entries, fs, open)
     IN IF r.ok
        THEN /\ f' = r.handle
             /\ f_name' = r.name
             /\ open' = open \cup {r.handle.id}
             /\ sources' = <<r.handle.dir>>
             /\ pc' = "read"
        ELSE /\ pc' = "sleep"
             /\ UNCHANGED <<f, f_name, open, sources>>
  /\ no_new_lines_counter' = 0
  /\ scanned_through_file' = FALSE
  /\ UNCHANGED <<err, f_new, f_new_name, line, emitted, handled, eofObserved,
                 lastRead, empties, sleeps>>
  /\ UNCHANGED envVars

\* Line 114: the first open.  A failure leaves log_follow before its loop.
OpenFirst ==
  /\ pc = "start"
  /\ LET r == open_log_file(entries, fs, open)
     IN IF r.ok
        THEN /\ f' = r.handle
             /\ f_name' = r.name
             /\ open' = open \cup {r.handle.id}
             /\ sources' = <<r.handle.dir>>
             /\ pc' = "read"
             /\ err' = err
        ELSE /\ pc' = "raised"
             /\ err' = "first_open"
             /\ UNCHANGED <<f, f_name, open, sources>>
  /\ no_new_lines_counter' = 0
  /\ scanned_through_file' = FALSE
  /\ UNCHANGED <<f_new, f_new_name, line, emitted, handled, eofObserved,
                 lastRead, empties, sleeps>>
  /\ UNCHANGED envVars

\* Lines 124-142: one readline and what follows it up to the yield, the
\* probe or the sleep.
ReadLine ==
  /\ pc = "read"
  /\ \E o \in ReadOutcomes(fs[f.dir].data, f.pos, f.used) :
       LET a == AfterRead(o, no_new_lines_counter, scanned_through_file)
           item == [dir |-> f.dir, kind |-> o.kind, from |-> o.from, to |-> o.to,
                    live |-> a.live, eof |-> eofObserved, gen |-> Len(sources)]
       IN /\ f' = [f EXCEPT !.pos = o.pos, !.used = o.used]
          /\ scanned_through_file' = a.scanned
          /\ no_new_lines_counter' = a.counter
          /\ eofObserved' = (eofObserved \/ o.kind = "eof")
          /\ lastRead' = o.kind
          /\ empties' = IF o.kind = "eof" THEN empties + 1 ELSE 0
          /\ IF a.yields
             THEN /\ line' = [value |-> IF o.kind = "error" THEN Sentinel ELSE "text",
                              is_live |-> a.live]
                  /\ emitted' = Append(emitted, item)
                  /\ pc' = "yield"
             ELSE /\ UNCHANGED <<line, emitted>>
                  /\ pc' = IF NeedProbe(a.counter) THEN "probe" ELSE "sleep"
  /\ sleeps' = 0
  /\ handled' = None
  /\ UNCHANGED <<err, f_name, f_new, f_new_name, open, sources>>
  /\ UNCHANGED envVars

\* Lines 199-200: main hands the yielded value to parse_line and, when that
\* returns, resumes log_follow at line 139.
Consume ==
  /\ pc = "yield"
  /\ \E matched \in BOOLEAN, lookup \in {"success", "fail", "unreachable"},
        send \in {"ok", "error"} :
       /\ line.value = Sentinel => ~matched
       /\ ~matched => lookup = "fail" /\ send = "ok"
       /\ lookup # "success" => send = "ok"
       /\ LET r == parse_line(matched, lookup, send, line.is_live)
          IN /\ handled' = [idx |-> Len(emitted), matched |-> matched,
                            lookup |-> IF matched THEN lookup ELSE "none",
                            is_live |-> line.is_live, calls |-> r.calls]
             /\ IF r.raised = "none"
                THEN pc' = "read" /\ err' = err
                ELSE pc' = "raised" /\ err' = r.raised
  /\ line' = None
  /\ UNCHANGED <<f, f_name, f_new, f_new_name, no_new_lines_counter,
                 scanned_through_file, open, emitted, eofObserved, sources,
                 lastRead, empties, sleeps>>
  /\ UNCHANGED envVars

\* Lines 143-144: reset the counter, locate and open again.  An exception of
\* open_log_file is not caught: it ends log_follow.
ProbeOpen ==
  /\ pc = "probe"
  /\ no_new_lines_counter' = 0
  /\ LET r == open_log_file(entries, fs, open)
     IN IF r.ok
        THEN /\ f_new' = r.handle
             /\ f_new_name' = r.name
             /\ open' = open \cup {r.handle.id}
             /\ pc' = "compare"
             /\ err' = err
        ELSE /\ pc' = "raised"
             /\ err' = "probe_open"
             /\ UNCHANGED <<f_new, f_new_name, open>>
  /\ empties' = 0
  /\ UNCHANGED <<f, f_name, scanned_through_file, line, emitted, handled,
                 eofObserved, sources, lastRead, sleeps>>
  /\ UNCHANGED envVars

\* ProbeDecide followed by a continue: the sleep of line 157 is skipped.
ProbeDecide_NoSleep ==
  /\ pc = "compare"
  /\ LET a == Adopt(f, f_name, f_new, f_new_name, scanned_through_file)
     IN /\ f' = a.f
        /\ f_name' = a.f_name
        /\ scanned_through_file' = a.scanned
        /\ open' = open \ {a.closed}
        /\ eofObserved' = IF a.f.id # f.id THEN FALSE ELSE eofObserved
        /\ sources' = IF a.f.id # f.id THEN Append(sources, a.f.dir) ELSE sources
        /\ lastRead' = IF a.f.id # f.id THEN "none" ELSE lastRead
  /\ f_new' = None
  /\ f_new_name' = None
  /\ pc' = "read"
  /\ UNCHANGED <<err, no_new_lines_counter, line, emitted, handled, empties, sleeps>>
  /\ UNCHANGED envVars

\* Lines 146-154.
ProbeDecide ==
  /\ pc = "compare"
  /\ LET a == Adopt(f, f_name, f_new, f_new_name, scanned_through_file)
     IN /\ f' = a.f
        /\ f_name' = a.f_name
        /\ scanned_through_file' = a.scanned
        /\ open' = open \ {a.closed}
        /\ eofObserved' = IF a.f.id # f.id THEN FALSE ELSE eofObserved
        /\ sources' = IF a.f.id # f.id THEN Append(sources, a.f.dir) ELSE sources
        /\ lastRead' = IF a.f.id # f.id THEN "none" ELSE lastRead
  /\ f_new' = None
  /\ f_new_name' = None
  /\ pc' = "sleep"
  /\ UNCHANGED <<err, no_new_lines_counter, line, emitted, handled, empties, sleeps>>
  /\ UNCHANGED envVars

\* Lines 156-158.
Sleep ==
  /\ pc = "sleep"
  /\ pc' = "read"
  /\ sleeps' = sleeps + SleepSeconds
  /\ UNCHANGED <<err, f, f_name, f_new, f_new_name, no_new_lines_counter,
                 scanned_through_file, line, open, emitted, handled, eofObserved,
                 sources, lastRead, empties>>
  /\ UNCHANGED envVars

Engine == OpenFirst \/ ReadLine \/ Consume \/ ProbeOpen \/ ProbeDecide \/ Sleep
Writer == CreateDir \/ CreateFile \/ WriterAppend

Next == OpenFirst \/ ReadLine \/ Consume \/ ProbeOpen \/ ProbeDecide \/ Sleep
          \/ CreateDir \/ CreateFile \/ WriterAppend

Spec == Init /\ [][Next]_vars

\* ------------------------------------------------- the locator on its own
\* get_newest_log_filename run once on an arbitrary logs root: names with
\* the marker at the start, in the middle, twice and not at all; creation
\* times that may tie.
LocNames ==
  { <<Marker, "s1">>, <<"old", Marker, "s2">>,
    <<Marker, "s3", Marker, "s4">>, <<"misc">> }
LocTimes == 0..2
LocEntry == [name : LocNames, ctime : LocTimes]
LocRoots ==
  UNION { {r \in [1..n -> LocEntry] :
             \A i, j \in 1..n : i # j => r[i].name # r[j].name}
          : n \in 0..MaxEntries }

LocInit ==
  /\ entries \in LocRoots
  /\ fs = [d \in DirNames |-> [exists |-> FALSE, data |-> <<>>]]
  /\ wdir = 0
  /\ written = 0
  /\ pc = "start"
  /\ err = "none"
  /\ f = None
  /\ f_name = None
  /\ f_new = None
  /\ f_new_name = None
  /\ no_new_lines_counter = 0
  /\ scanned_through_file = FALSE
  /\ line = None
  /\ open = {}
  /\ emitted = <<>>
  /\ handled = None
  /\ eofObserved = FALSE
  /\ sources = <<>>
  /\ lastRead = "none"
  /\ empties = 0
  /\ sleeps = 0

\* Lines 64-80: one call; the assertion of line 75 ends the run.
Locate ==
  /\ pc = "start"
  /\ LET r == get_newest_log_filename(entries)
     IN IF r.ok
        THEN /\ f_name' = r.path
             /\ pc' = "read"
             /\ err' = err
        ELSE /\ f_name' = f_name
             /\ pc' = "raised"
             /\ err' = "first_open"
  /\ UNCHANGED <<f, f_new, f_new_name, no_new_lines_counter,
                 scanned_through_file, line, open, emitted, handled,
                 eofObserved, sources, lastRead, empties, sleeps>>
  /\ UNCHANGED envVars

LocNext == Locate

LocSpec == LocInit /\ [][LocNext]_vars

\* ------------------------------------------------------------- properties

Items == 1..Len(emitted)

\* The yielded values that are text of write u of directory d.
Covering(d, u) ==
  {i \in Items : emitted[i].dir = d /\ emitted[i].kind = "line"
                 /\ emitted[i].from <= u /\ u <= emitted[i].to}

\* The first value yielded from the file it comes from.
FirstOfSource(i) == \A j \in 1..(i - 1) : emitted[j].gen # emitted[i].gen

\* The result open_log_file has in the current state.
Located == open_log_file(entries, fs, open)

\* C1: every yielded value is tagged live exactly when an empty read had
\* already happened on the handle it was read from.
C1_Tagging == \A i \in Items : emitted[i].live = emitted[i].eof

\* C1: a file gave a historical line and, after a pause, a live one.
C1_Witness ==
  \E i, j \in Items : /\ i < j
                      /\ emitted[i].gen = emitted[j].gen
                      /\ ~emitted[i].live
                      /\ emitted[j].live

\* C2 as stated: the first value yielded from a file adopted by a rotation
\* is tagged live.
C2_FirstLineLive ==
  \A i \in Items : (emitted[i].gen >= 2 /\ FirstOfSource(i)) => emitted[i].live

\* C2 amended: a probe happens only after 31 consecutive empty reads; a probe
\* that finds a new openable file takes it and the loop switches to it with
\* the flag cleared; the first value yielded from the new file is tagged
\* historical unless an empty read on the new file came before it.
C2_SwitchAndTag ==
  /\ [](pc = "probe" => no_new_lines_counter = Threshold + 1)
  /\ [][(pc = "probe" /\ pc' # "probe" /\ Located.ok /\ Located.name # f_name)
          => (pc' = "compare" /\ f_new_name' = Located.name)]_vars
  /\ [][(pc = "compare" /\ pc' # "compare" /\ f_new_name # f_name)
          => (f' = f_new /\ f_name' = f_new_name /\ ~scanned_through_file'
              /\ sources' = Append(sources, f_new_name.dir))]_vars
  /\ [](\A i \in Items : (emitted[i].gen >= 2 /\ FirstOfSource(i))
                           => (emitted[i].live <=> emitted[i].eof))

\* C2: a line that was already in the new file was yielded as historical.
C2_Witness ==
  \E i \in Items : emitted[i].gen >= 2 /\ FirstOfSource(i) /\ ~emitted[i].live

\* C3 as stated: once log_follow has left a file, every write of that file
\* (here: of a file without undecodable bytes) was yielded exactly once.
C3_NothingLostOrRepeated ==
  \A g \in 1..(Len(sources) - 1) :
    LET d == sources[g]
    IN (\A u \in 1..Len(fs[d].data) : ~fs[d].data[u].bad)
         => \A u \in 1..Len(fs[d].data) : Cardinality(Covering(d, u)) = 1

\* C4: a probe that resolves to the current path leaves the handle, its
\* position, the path and the flag alone and yields nothing; no write is
\* yielded twice, and between two lines of a file with no decode error in
\* between no write is skipped.
C4_NoSpuriousRotation ==
  /\ [][(pc = "compare" /\ pc' # "compare" /\ f_new_name = f_name)
          => (f' = f /\ f_name' = f_name
              /\ scanned_through_file' = scanned_through_file
              /\ emitted' = emitted /\ sources' = sources
              /\ f.id \in open' /\ pc' = "sleep")]_vars
  /\ [](\A i, j \in Items :
          (i < j /\ emitted[i].dir = emitted[j].dir
             /\ emitted[i].kind = "line" /\ emitted[j].kind = "line")
          => emitted[i].to < emitted[j].from)
  /\ [](\A i \in Items :
          emitted[i].kind = "line" =>
            LET prev == {j \in 1..(i - 1) : emitted[j].dir = emitted[i].dir}
            IN IF prev = {} THEN emitted[i].from = 1
               ELSE LET p == CHOOSE j \in prev : \A k \in prev : k <= j
                    IN emitted[p].kind = "line" => emitted[i].from = emitted[p].to + 1)

\* C4: a probe found the current path again, after lines had been yielded.
C4_Witness ==
  /\ pc = "sleep"
  /\ no_new_lines_counter = 0
  /\ scanned_through_file
  /\ Len(sources) = 1
  /\ emitted # <<>>

\* C5 as stated: a probe whose open fails ends in the sleep with the handle,
\* the path and the flag unchanged and no exception.
C5_ProbeFailureAbsorbed ==
  [][(pc = "probe" /\ pc' # "probe" /\ ~Located.ok)
       => (pc' = "sleep" /\ err' = "none" /\ f' = f /\ f_name' = f_name
           /\ scanned_through_file' = scanned_through_file)]_vars

\* C6: a matched line whose lookup succeeded caused one webhook call when it
\* was tagged live and none when it was tagged historical.
C6_NotifyLiveOnly ==
  (handled # None /\ handled.matched /\ handled.lookup = "success")
    => handled.calls = IF emitted[handled.idx].live THEN 1 ELSE 0

\* C6: a live matched line was notified.
C6_Witness ==
  /\ handled # None
  /\ handled.matched
  /\ handled.lookup = "success"
  /\ emitted[handled.idx].live
  /\ handled.calls = 1

\* C7 as stated: a matched line whose lookup failed or could not be made
\* causes no webhook call and no exception.
C7_LookupFailureAbsorbed ==
  (handled # None /\ handled.lookup \in {"fail", "unreachable"})
    => (handled.calls = 0 /\ err = "none" /\ pc # "raised")

\* C8 as stated: once the first file is open, log_follow does not end by
\* itself.
C8_NoTerminalState ==
  f # None => ~(pc = "raised" /\ err = "probe_open")

\* C9 as stated: when the current file has been read to its end, there are
\* no more sentinels than undecodable writes, and every decodable write that
\* follows an undecodable one has been yielded.
C9_DecodeErrorResilience ==
  (f # None /\ pc = "sleep" /\ f.pos = Len(fs[f.dir].data) /\ f.used = f.pos)
    => LET data == fs[f.dir].data
           U == 1..Len(data)
       IN /\ Cardinality({i \in Items : emitted[i].dir = f.dir
                                          /\ emitted[i].kind = "error"})
               <= Cardinality({u \in U : data[u].bad})
          /\ \A u \in U : (~data[u].bad /\ \E b \in 1..(u - 1) : data[b].bad)
                            => Covering(f.dir, u) # {}

\* C10: with no entry in the logs root the first open raises, and a run that
\* ended in the first open has yielded nothing, slept never, notified nothing
\* and does nothing more.
C10_FatalFirstOpen ==
  /\ [][(pc = "start" /\ pc' # "start" /\ entries = <<>>)
          => (pc' = "raised" /\ err' = "first_open")]_vars
  /\ [](err = "first_open"
          => (pc = "raised" /\ f = None /\ emitted = <<>> /\ sleeps = 0
              /\ handled = None /\ open = {}))
  /\ [][err = "first_open" => UNCHANGED engineVars]_vars

\* C10: the run ended in the first open because the logs root was empty.
C10_Witness == err = "first_open" /\ entries = <<>>

\* Creation time of the directory called dir.
CtimeOf(dir) ==
  LET k == CHOOSE k \in 1..Len(entries) : entries[k].name = dir
  IN entries[k].ctime

\* C11: values are yielded in file order, those of an old file before those
\* of a newer one, the files read being of strictly increasing creation
\* time; while a probe runs, the last readline on the current
\* handle returned the empty string and nothing was read since, and the
\* handle is replaced only then.
C11_OrderAcrossRotation ==
  /\ [](\A i, j \in Items :
          i < j => /\ emitted[i].gen <= emitted[j].gen
                   /\ (emitted[i].gen = emitted[j].gen
                         /\ emitted[i].kind = "line" /\ emitted[j].kind = "line")
                        => emitted[i].to < emitted[j].from)
  /\ [](\A a, b \in 1..Len(sources) :
          a < b => CtimeOf(sources[a]) < CtimeOf(sources[b]))
  /\ [](pc \in {"probe", "compare"} => (lastRead = "eof" /\ line = None))
  /\ [][(f # None /\ f' # None /\ f'.id # f.id)
          => (pc = "compare" /\ lastRead = "eof" /\ f' = f_new
              /\ f.id \notin open')]_vars

\* C11: a value of the new file was yielded after a value of the old one.
C11_Witness ==
  \E i, j \in Items : i < j /\ emitted[i].gen = 1 /\ emitted[j].gen = 2

C13_SuspendOnEmptyRead ==
  /\ [][(pc = "read" /\ pc' # "read")
          => sleeps = IF empties > 0 \/ (lastRead = "eof")
                         \/ (lastRead = "none" /\ Len(sources) > 1)
                      THEN 1 ELSE 0]_vars
  /\ [][(pc = "sleep" /\ pc' # "sleep") => (pc' = "read" /\ sleeps' = 1)]_vars
  /\ [](pc = "sleep" => sleeps = 0)

\* C13: the next readline comes after a probe and the sleep that follows it.
C13_Witness ==
  pc = "read" /\ sleeps = 1 /\ empties = 0 /\ lastRead = "eof" /\ handled = None

\* C14: the flag goes from true to false only in the step of a probe that
\* adopts a path other than the current one.
C14_ScannedMonotone ==
  [][(scanned_through_file /\ ~scanned_through_file')
       => (pc = "compare" /\ f_new_name # f_name /\ f_name' = f_new_name)]_vars

\* C14: the flag was true on the old file, a live line was yielded, and the
\* adoption of the new file cleared it.
C14_Witness ==
  /\ Len(sources) = 2
  /\ ~scanned_through_file
  /\ \E i \in Items : emitted[i].gen = 1 /\ emitted[i].live

\* C15: outside a probe exactly the current handle is open; during a probe
\* the current handle and the unread probe handle are open; a probe ends
\* with one open handle, the other one closed in that step.
C15_HandleOwnership ==
  /\ [](pc \in {"read", "yield", "sleep"} => open = {f.id})
  /\ [](pc = "probe" => open = {f.id})
  /\ [](pc = "compare" => (/\ f_new.id # f.id
                           /\ open = {f.id, f_new.id}
                           /\ f_new.pos = 0 /\ f_new.used = 0))
  /\ [][(pc = "compare" /\ pc' # "compare")
          => (/\ open' = {f'.id}
              /\ f' \in {f, f_new}
              /\ (f_new_name = f_name => f' = f)
              /\ (f_new_name # f_name => f' = f_new))]_vars

\* C15: after a rotation only the adopted handle is open.
C15_Witness ==
  Len(sources) = 2 /\ pc = "read" /\ open = {f.id} /\ f_new = None

\* C16: while open_log_file resolves to an openable file other than the
\* current one, fewer than 31 consecutive empty reads have gone by without a
\* probe; the 31st leads to the probe, which opens that file, and the next
\* step of the loop adopts it.
C16_BoundedRotationLatency ==
  /\ []((f # None /\ Located.ok /\ Located.name # f_name)
          => (/\ empties <= Threshold + 1
              /\ (pc \in {"read", "yield", "sleep"} => empties <= Threshold)))
  /\ [][(pc = "read" /\ pc' # "read" /\ lastRead' = "eof" /\ empties = Threshold)
          => pc' = "probe"]_vars
  /\ [][(pc = "probe" /\ pc' # "probe" /\ Located.ok /\ Located.name # f_name)
          => (pc' = "compare" /\ f_new_name' # f_name)]_vars
  /\ [][(pc = "compare" /\ pc' # "compare" /\ f_new_name # f_name)
          => (f_name' = f_new_name /\ f'.dir = f_new_name.dir)]_vars

\* C16: the new file was adopted by the probe that followed its appearance.
C16_Witness ==
  /\ Len(sources) = 2
  /\ pc = "sleep"
  /\ no_new_lines_counter = 0
  /\ f_name = Located.name

\* The greatest creation time of the logs root.
TopCtime == CHOOSE t \in {entries[k].ctime : k \in 1..Len(entries)} :
              \A k \in 1..Len(entries) : entries[k].ctime <= t

\* The position of the first entry with the greatest creation time.
FirstTop == CHOOSE k \in 1..Len(entries) :
              /\ entries[k].ctime = TopCtime
              /\ \A j \in 1..(k - 1) : entries[j].ctime # TopCtime

\* What str.partition leaves after the first occurrence of the marker.
RestOf(name) ==
  LET at == {k \in 1..Len(name) : name[k] = Marker}
  IN IF at = {} THEN <<>>
     ELSE LET k == CHOOSE k \in at : \A j \in at : k <= j
          IN SubSeq(name, k + 1, Len(name))

\* C17: on a non-empty logs root the locator returns the path of the first
\* entry, in enumeration order, among those of the greatest creation time:
\* its directory, and the file named by what follows the first "log_" in
\* its name, then " application.log"; it raises only on an empty root.
C17_LocatorSelection ==
  /\ (pc = "raised" <=> (pc # "start" /\ entries = <<>>))
  /\ pc = "read"
       => /\ f_name.dir = entries[FirstTop].name
          /\ f_name.file = RestOf(entries[FirstTop].name) \o <<Suffix>>

\* C17: the locator has chosen the first of two entries tied for the
\* greatest creation time, one whose name has the marker in the middle.
C17_Witness ==
  /\ pc = "read"
  /\ \E i, j \in 1..Len(entries) :
       /\ i < j
       /\ entries[i].ctime = TopCtime /\ entries[j].ctime = TopCtime
       /\ f_name.dir = entries[i].name
       /\ Head(entries[i].name) # Marker
       /\ f_name.file = <<"s2", Suffix>>

\* C18: the counter is between 0 and 31, equals the number of consecutive
\* empty reads since the start, the last yielded value or the last probe,
\* and is 0 while a yielded value is with the consumer.
C18_CounterInvariant ==
  /\ no_new_lines_counter \in 0..(Threshold + 1)
  /\ no_new_lines_counter = empties
  /\ (pc = "yield" => no_new_lines_counter = 0)
  /\ (lastRead \in {"line", "error"} => no_new_lines_counter = 0)

\* C18: a value was yielded after empty reads and the counter is back at 0.
C18_Witness ==
  pc = "yield" /\ no_new_lines_counter = 0 /\ eofObserved /\ line.is_live

\* C19 as stated: every yielded value other than the sentinel starts at the
\* beginning of a line of the file and ends with that line's ending.
C19_WholeLines ==
  \A i \in Items :
    emitted[i].kind = "line"
      => LET data == fs[emitted[i].dir].data
         IN /\ data[emitted[i].to].nl
            /\ (emitted[i].from = 1 \/ data[emitted[i].from - 1].nl)

\* C20 as stated, in the form a finite run refutes: once the current file,
\* which the locator still resolves to, has been read to its end, every
\* decodable write of it has been yielded (the read position never goes
\* back, so a write not yielded by then is never yielded).
C20_EveryLineEmitted ==
  (/\ f # None /\ pc = "sleep"
   /\ Located.ok /\ Located.name = f_name
   /\ f.pos = Len(fs[f.dir].data) /\ f.used = f.pos)
    => \A u \in 1..Len(fs[f.dir].data) :
         ~fs[f.dir].data[u].bad => Covering(f.dir, u) # {}
====
